---- MODULE Spec2Model ----
(***************************************************************************)
(* A model of the CIS-controls attestation application: the maturity       *)
(* scoring engine (app.py), the hash normalisation and canonical           *)
(* fingerprint builder (app.py), the content-store upload (app.py), the    *)
(* ledger adapter (chain.py) and the Streamlit handlers that drive them.   *)
(*                                                                         *)
(* Strings are sequences of characters; a character is a one-letter TLA+   *)
(* string, or a named token for the characters that cannot be written      *)
(* plainly: SP (space), LF, CR, TAB, SQ ('), DQ ("), IDSP (U+3000), FW_A   *)
(* and FW_a (the fullwidth letters U+FF21 and U+FF41).                     *)
(***************************************************************************)
EXTENDS Integers, Sequences, FiniteSets, TLC

\* Python's None where a string is expected: no string holds this token
NULL == <<"None">>

Min(S) == CHOOSE x \in S : \A y \in S : x <= y
Max(S) == CHOOSE x \in S : \A y \in S : y <= x

\* ------------------------------------------------------------------------
\* Characters
\* ------------------------------------------------------------------------
Digits == {"0", "1", "2", "3", "4", "5", "6", "7", "8", "9"}
HexLower == Digits \cup {"a", "b", "c", "d", "e", "f"}
HexUpper == {"A", "B", "C", "D", "E", "F"}
HexAny == HexLower \cup HexUpper
\* what str.strip() with no argument removes (after NFKC, IDSP is already SP)
Whitespace == {"SP", "LF", "CR", "TAB", "IDSP"}
Quotes == {"SQ", "DQ"}

\* str.lower() on one character
LowerChar(c) ==
    CASE c = "A" -> "a" [] c = "B" -> "b" [] c = "C" -> "c"
      [] c = "D" -> "d" [] c = "E" -> "e" [] c = "F" -> "f"
      [] c = "X" -> "x" [] c = "G" -> "g" [] c = "FW_A" -> "FW_a"
      [] OTHER -> c

\* unicodedata.normalize("NFKC", .) on one character: compatibility forms
\* fold to their ASCII counterparts
NFKCChar(c) ==
    CASE c = "FW_A" -> "A" [] c = "FW_a" -> "a" [] c = "IDSP" -> "SP"
      [] OTHER -> c

Lower(s) == [i \in 1..Len(s) |-> LowerChar(s[i])]
NFKC(s) == [i \in 1..Len(s) |-> NFKCChar(s[i])]

\* str.strip(chars): drop the characters of S from both ends
Strip(s, S) ==
    IF \A i \in 1..Len(s) : s[i] \in S THEN <<>>
    ELSE LET n == Len(s)
             first == CHOOSE i \in 1..n : s[i] \notin S /\ \A j \in 1..(i - 1) : s[j] \in S
             back == CHOOSE k \in 0..(n - 1) :
                        s[n - k] \notin S /\ \A j \in 0..(k - 1) : s[n - j] \in S
         IN  SubSeq(s, first, n - back)

\* chained str.replace(c, "") for every c of S
RemoveAll(s, S) ==
    LET Keep(c) == c \notin S
    IN  SelectSeq(s, Keep)

StartsWith(s, p) == Len(s) >= Len(p) /\ SubSeq(s, 1, Len(p)) = p

AllIn(s, S) == \A i \in 1..Len(s) : s[i] \in S

\* the length the hex body of a fingerprint must have
HashLen == 64

HexValue(c) ==
    CASE c = "0" -> 0 [] c = "1" -> 1 [] c = "2" -> 2 [] c = "3" -> 3
      [] c = "4" -> 4 [] c = "5" -> 5 [] c = "6" -> 6 [] c = "7" -> 7
      [] c = "8" -> 8 [] c = "9" -> 9 [] c = "a" -> 10 [] c = "b" -> 11
      [] c = "c" -> 12 [] c = "d" -> 13 [] c = "e" -> 14 [] c = "f" -> 15

HexDigit(n) ==
    <<"0", "1", "2", "3", "4", "5", "6", "7", "8", "9",
      "a", "b", "c", "d", "e", "f">>[n + 1]

\* ------------------------------------------------------------------------
\* app.py: normalize_hash
\* ------------------------------------------------------------------------
\* normalize_hash without the final lower-casing
normalize_hash_keeps_case(h) ==
    IF h = <<>> THEN NULL
    ELSE LET h1 == Strip(NFKC(h), Whitespace)
             h2 == Strip(RemoveAll(h1, {"SP", "LF", "CR"}), Quotes)
             h3 == IF StartsWith(h2, <<"0", "x">>) \/ StartsWith(h2, <<"0", "X">>)
                   THEN SubSeq(h2, 3, Len(h2)) ELSE h2
         IN  IF Len(h3) = HashLen /\ AllIn(h3, HexAny)
             THEN <<"0", "x">> \o h3
             ELSE NULL

normalize_hash(h) ==
    IF h = <<>> THEN NULL
    ELSE LET h1 == Strip(NFKC(h), Whitespace)
             h2 == Strip(RemoveAll(h1, {"SP", "LF", "CR"}), Quotes)
             h3 == IF StartsWith(h2, <<"0", "x">>) \/ StartsWith(h2, <<"0", "X">>)
                   THEN SubSeq(h2, 3, Len(h2)) ELSE h2
         IN  IF Len(h3) = HashLen /\ AllIn(h3, HexAny)
             THEN <<"0", "x">> \o Lower(h3)
             ELSE NULL

\* ------------------------------------------------------------------------
\* chain.py: _to_bytes32.  The result is the 32 bytes, or the exception.
\* ------------------------------------------------------------------------
\* the mark of the ValueError _to_bytes32 raises: no byte is negative
ValueError == <<-1>>

BytesFromHex(s) ==
    [i \in 1..(Len(s) \div 2) |-> 16 * HexValue(s[2 * i - 1]) + HexValue(s[2 * i])]

\* a conversion that checks the characters but not the length
_to_bytes32_any_length(hash_hex) ==
    LET c1 == Strip(Lower(hash_hex), Whitespace)
        clean == IF StartsWith(c1, <<"0", "x">>) THEN SubSeq(c1, 3, Len(c1)) ELSE c1
    IN  IF ~AllIn(clean, HexLower) THEN ValueError ELSE BytesFromHex(clean)

_to_bytes32(hash_hex) ==
    LET c1 == Strip(Lower(hash_hex), Whitespace)
        clean == IF StartsWith(c1, <<"0", "x">>) THEN SubSeq(c1, 3, Len(c1)) ELSE c1
    IN  IF Len(clean) # HashLen \/ ~AllIn(clean, HexLower)
        THEN ValueError
        ELSE BytesFromHex(clean)

\* ------------------------------------------------------------------------
\* app.py: maturity scoring.  A float is kept as the exact rational
\* <<numerator, denominator>>; every value the scoring produces is a sum of
\* halves divided by a small count, and the thresholds are hundredths, so
\* the comparisons below decide as the float comparisons do.
\* ------------------------------------------------------------------------
\* the answer texts, written without their accents
CHOICES == <<"Implementado", "Parcial", "Nao implementado", "Nao se aplica">>

IGS == <<"IG1", "IG2", "IG3">>

\* p < c/100 and p >= c/100 for a rational p
Lt(p, c) == p[1] * 100 < c * p[2]
Ge(p, c) == p[1] * 100 >= c * p[2]

\* a score that counts "Nao se aplica" as not implemented
score_answer_na_penalized(a) ==
    IF a = "Implementado" THEN 2
    ELSE IF a = "Parcial" THEN 1
    ELSE 0

\* the score of one answer, in halves (2 is 1.0, 1 is 0.5, 0 is 0.0)
score_answer(a) ==
    IF a = "Implementado" THEN 2
    ELSE IF a = "Parcial" THEN 1
    ELSE IF a = "Nao se aplica" THEN 2
    ELSE 0

\* the classification with rule 3 asking p_ig1 > 0.80 instead of >= 0.80
cmmi_level_exclusive_ig1(p_ig1, p_ig2, p_ig3) ==
    IF Lt(p_ig1, 20) /\ Lt(p_ig2, 20) THEN 1
    ELSE IF Ge(p_ig1, 80) /\ Lt(p_ig2, 40) THEN 2
    ELSE IF ~Lt(p_ig1, 81) /\ Ge(p_ig2, 50) /\ Lt(p_ig3, 40) THEN 3
    ELSE IF Ge(p_ig1, 80) /\ Ge(p_ig2, 70) /\ Ge(p_ig3, 40)
         THEN (IF Ge(p_ig1, 90) /\ Ge(p_ig2, 85) /\ Ge(p_ig3, 70) THEN 5 ELSE 4)
    ELSE IF Ge(p_ig1, 50) THEN 2 ELSE 1

\* the classification with rule 3 asking p_ig2 > 0.50 instead of >= 0.50
cmmi_level_exclusive_ig2(p_ig1, p_ig2, p_ig3) ==
    IF Lt(p_ig1, 20) /\ Lt(p_ig2, 20) THEN 1
    ELSE IF Ge(p_ig1, 80) /\ Lt(p_ig2, 40) THEN 2
    ELSE IF Ge(p_ig1, 80) /\ ~Lt(p_ig2, 51) /\ Lt(p_ig3, 40) THEN 3
    ELSE IF Ge(p_ig1, 80) /\ Ge(p_ig2, 70) /\ Ge(p_ig3, 40)
         THEN (IF Ge(p_ig1, 90) /\ Ge(p_ig2, 85) /\ Ge(p_ig3, 70) THEN 5 ELSE 4)
    ELSE IF Ge(p_ig1, 50) THEN 2 ELSE 1

cmmi_level_from_igs(p_ig1, p_ig2, p_ig3) ==
    IF Lt(p_ig1, 20) /\ Lt(p_ig2, 20) THEN 1
    ELSE IF Ge(p_ig1, 80) /\ Lt(p_ig2, 40) THEN 2
    ELSE IF Ge(p_ig1, 80) /\ Ge(p_ig2, 50) /\ Lt(p_ig3, 40) THEN 3
    ELSE IF Ge(p_ig1, 80) /\ Ge(p_ig2, 70) /\ Ge(p_ig3, 40)
         THEN (IF Ge(p_ig1, 90) /\ Ge(p_ig2, 85) /\ Ge(p_ig3, 70) THEN 5 ELSE 4)
    ELSE IF Ge(p_ig1, 50) THEN 2 ELSE 1

RECURSIVE SumSeq(_)
SumSeq(s) == IF s = <<>> THEN 0 ELSE Head(s) + SumSeq(Tail(s))

\* dict.get(sid, "Nao implementado") on a mapping kept as a function
AnswerOf(respostas_by_id, sid) ==
    IF sid \in DOMAIN respostas_by_id THEN respostas_by_id[sid] ELSE "Nao implementado"

\* by_control[ctrl][ig]: the ids of the bucket, in catalog order
Bucket(safeguards, ctrl, ig) ==
    LET In(s) == s.control = ctrl /\ s.ig = ig
        sel == SelectSeq(safeguards, In)
    IN  [i \in 1..Len(sel) |-> sel[i].id]

\* by_control[ctrl]["name"]: the control_name of the last entry of the control
ControlName(safeguards, ctrl) ==
    safeguards[Max({i \in 1..Len(safeguards) : safeguards[i].control = ctrl})].control_name

\* the mean taken over the applicable safeguards only, while "Nao se aplica"
\* still scores 1.0
IgPerc_skips_na(respostas_by_id, ids) ==
    IF ids = <<>> THEN <<0, 1>>
    ELSE LET scores == [i \in 1..Len(ids) |-> score_answer(AnswerOf(respostas_by_id, ids[i]))]
             Applies(sid) == AnswerOf(respostas_by_id, sid) # "Nao se aplica"
         IN  <<SumSeq(scores), 2 * Len(SelectSeq(ids, Applies))>>

\* ig_perc[ig] of one bucket: 0.0 for an empty bucket, the mean otherwise
IgPerc(respostas_by_id, ids) ==
    IF ids = <<>> THEN <<0, 1>>
    ELSE LET scores == [i \in 1..Len(ids) |-> score_answer(AnswerOf(respostas_by_id, ids[i]))]
         IN  <<SumSeq(scores), 2 * Len(scores)>>

ControlsOf(safeguards) == {safeguards[i].control : i \in 1..Len(safeguards)}

\* the pair (maturity, cmmi_avg) compute_maturity returns; cmmi_avg is the
\* rational sum/len of the levels, 0.0 when there is no control
compute_maturity(respostas_by_id, safeguards) ==
    LET ctrls == ControlsOf(safeguards)
        perc(ctrl, ig) == IgPerc(respostas_by_id, Bucket(safeguards, ctrl, ig))
        maturity == [ctrl \in ctrls |->
            [name |-> ControlName(safeguards, ctrl),
             ig1 |-> perc(ctrl, "IG1"),
             ig2 |-> perc(ctrl, "IG2"),
             ig3 |-> perc(ctrl, "IG3"),
             cmmi |-> cmmi_level_from_igs(perc(ctrl, "IG1"), perc(ctrl, "IG2"), perc(ctrl, "IG3"))]]
        RECURSIVE SumLevels(_)
        SumLevels(S) == IF S = {} THEN 0
                        ELSE LET c == CHOOSE x \in S : TRUE
                             IN  maturity[c].cmmi + SumLevels(S \ {c})
        cmmi_avg == IF ctrls = {} THEN <<0, 1>> ELSE <<SumLevels(ctrls), Cardinality(ctrls)>>
    IN  <<maturity, cmmi_avg>>


\* ------------------------------------------------------------------------
\* app.py: canonical serialisation and fingerprint.
\* A JSON value is a scalar [t |-> "n", v |-> code], a dict
\* [t |-> "o", items |-> <<key, value>> pairs in insertion order] or a list
\* [t |-> "l", items |-> values].  A key is the number that orders it as
\* Python orders the keys of that dict.  The output is a sequence of byte
\* tokens: punctuation below ScalarBase, a scalar v as ScalarBase + v.
\* ------------------------------------------------------------------------
JNum(v) == [t |-> "n", v |-> v]
JObj(items) == [t |-> "o", items |-> items]
JList(items) == [t |-> "l", items |-> items]

TokLBrace == 1
TokRBrace == 2
TokLBracket == 3
TokRBracket == 4
TokColon == 5
TokComma == 6
ScalarBase == 10

\* the pairs left in insertion order (sort_keys dropped)
SortItems_insertion_order(items) == items

\* sorted(dct.items()): insertion sort of the pairs by key
RECURSIVE SortItems(_)
SortItems(items) ==
    IF items = <<>> THEN <<>>
    ELSE LET rest == SortItems(Tail(items))
             x == Head(items)
             Before(y) == y[1] < x[1]
             After(y) == ~(y[1] < x[1])
         IN  SelectSeq(rest, Before) \o <<x>> \o SelectSeq(rest, After)

\* json.dumps(obj, ensure_ascii=False, sort_keys=sort_keys, separators=(",", ":"))
RECURSIVE json_dumps(_, _)
json_dumps(obj, sort_keys) ==
    LET RECURSIVE Join(_)
        Join(parts) ==
            IF parts = <<>> THEN <<>>
            ELSE IF Len(parts) = 1 THEN parts[1]
            ELSE parts[1] \o <<TokComma>> \o Join(Tail(parts))
    IN  CASE obj.t = "n" -> <<ScalarBase + obj.v>>
          [] obj.t = "l" ->
                <<TokLBracket>>
                \o Join([i \in 1..Len(obj.items) |-> json_dumps(obj.items[i], sort_keys)])
                \o <<TokRBracket>>
          [] obj.t = "o" ->
                LET its == IF sort_keys THEN SortItems(obj.items) ELSE obj.items
                IN  <<TokLBrace>>
                    \o Join([i \in 1..Len(its) |->
                              <<ScalarBase + its[i][1], TokColon>>
                              \o json_dumps(its[i][2], sort_keys)])
                    \o <<TokRBrace>>

\* hashlib.sha256(data).hexdigest(), abstracted: a 16-bit digest of the bytes
\* (a position-weighted sum, so the order of the bytes counts), written as
\* four hex digits repeated to HashLen digits
DigestMod == 65536

RECURSIVE WeightedSum(_, _, _)
WeightedSum(data, lo, hi) ==
    IF lo > hi THEN 0
    ELSE IF lo = hi THEN (lo + 7) * (data[lo] + 1)
    ELSE LET mid == (lo + hi) \div 2
         IN  WeightedSum(data, lo, mid) + WeightedSum(data, mid + 1, hi)

Digest(data, seed) == (seed + 31 * WeightedSum(data, 1, Len(data))) % DigestMod

HexDigest(data) ==
    LET d == Digest(data, 0)
        quad == <<HexDigit(d \div 4096), HexDigit((d \div 256) % 16),
                  HexDigit((d \div 16) % 16), HexDigit(d % 16)>>
    IN  [i \in 1..HashLen |-> quad[((i - 1) % 4) + 1]]

sha256_hex(data) == <<"0", "x">> \o HexDigest(data)

\* Web3.keccak(data).hex(): another digest of the same shape
keccak256_hex(data) == <<"0", "x">> \o HexDigest(<<TokColon>> \o data)


\* ------------------------------------------------------------------------
\* app.py, submit handler: the report and its fingerprint
\* ------------------------------------------------------------------------
\* the number that renders a float k/d in the serialisation (thousandths)
FloatCode(p) == (1000 * p[1]) \div p[2]

ChoiceCode(a) == CHOOSE i \in 1..Len(CHOICES) : CHOICES[i] = a
IgCode(ig) == CHOOSE i \in 1..Len(IGS) : IGS[i] = ig

\* the dict of one catalog entry, keys in the order the catalog writes them:
\* control, id, ig, title, control_name (sorted: control < control_name < id
\* < ig < title)
SafeguardJson(sg) ==
    JObj(<<<<1, JNum(sg.control)>>, <<3, JNum(sg.id)>>, <<4, JNum(IgCode(sg.ig))>>,
           <<5, JNum(sg.id)>>, <<2, JNum(sg.control_name)>>>>)

\* the keys of a mapping in ascending order: the order in which the form
\* (answers) and the catalog (maturity) insert them for a catalog listed by
\* control and implementation group
RECURSIVE Ascending(_)
Ascending(S) == IF S = {} THEN <<>> ELSE <<Min(S)>> \o Ascending(S \ {Min(S)})

\* the dict of one control's maturity, keys inserted as name, ig1, ig2, ig3,
\* cmmi (sorted: cmmi < ig1 < ig2 < ig3 < name)
MaturityJson(m) ==
    JObj(<<<<5, JNum(m.name)>>, <<2, JNum(FloatCode(m.ig1))>>, <<3, JNum(FloatCode(m.ig2))>>,
           <<4, JNum(FloatCode(m.ig3))>>, <<1, JNum(m.cmmi)>>>>)

AnswerJson(a) == JNum(ChoiceCode(a))

\* the report dict, keys inserted as schema, company, generated_at,
\* safeguards, answers, maturity, cmmi_avg (sorted: answers < cmmi_avg <
\* company < generated_at < maturity < safeguards < schema)
ReportJson(report) ==
    JObj(<<<<7, JNum(report.schema)>>,
           <<3, JNum(report.company)>>,
           <<4, JNum(report.generated_at)>>,
           <<6, JList([i \in 1..Len(report.safeguards) |-> SafeguardJson(report.safeguards[i])])>>,
           <<1, JObj([i \in 1..Cardinality(DOMAIN report.answers) |->
                    <<Ascending(DOMAIN report.answers)[i],
                      AnswerJson(report.answers[Ascending(DOMAIN report.answers)[i]])>>])>>,
           <<5, JObj([i \in 1..Cardinality(DOMAIN report.maturity) |->
                    <<Ascending(DOMAIN report.maturity)[i],
                      MaturityJson(report.maturity[Ascending(DOMAIN report.maturity)[i]])>>])>>,
           <<2, JNum(FloatCode(report.cmmi_avg))>>>>)

BuildReport(company, now_iso, respostas_by_id, safeguards) ==
    LET r == compute_maturity(respostas_by_id, safeguards)
    IN  [schema |-> 1, company |-> company, generated_at |-> now_iso,
         safeguards |-> safeguards, answers |-> respostas_by_id,
         maturity |-> r[1], cmmi_avg |-> r[2]]

\* report_json.encode("utf-8") of the submit handler
CanonicalBytes(report) == json_dumps(ReportJson(report), TRUE)

ReportHash(report) == sha256_hex(CanonicalBytes(report))

\* ------------------------------------------------------------------------
\* The ledger contract (ProofOfReport.sol, deployed by deploy.py).  A ledger
\* maps the registered bytes32 keys to their records.
\* ------------------------------------------------------------------------
Sender == "0xSender"
ZeroAddress == "0x0000000000000000000000000000000000000000"
NoCid == <<>>

\* the revert of a duplicate registration, as web3 words it:
\* "execution reverted: Hash ja registrado"
DuplicateRevert == {"Hash ja registrado", "execution reverted", "Hash", "registrado"}

IsRegistered(ledger, key) == key \in DOMAIN ledger

WithRecord(ledger, key, rec) ==
    [k \in DOMAIN ledger \cup {key} |-> IF k = key THEN rec ELSE ledger[k]]

\* block.timestamp of the next block: later than every recorded timestamp
NextTimestamp(ledger) == Cardinality(DOMAIN ledger) + 1

\* registerReport(bytes32): reverts when the hash is registered, records
\* (msg.sender, block.timestamp) otherwise
Contract_registerReport(ledger, key) ==
    IF IsRegistered(ledger, key)
    THEN [reverted |-> TRUE, reason |-> DuplicateRevert, ledger |-> ledger]
    ELSE [reverted |-> FALSE, reason |-> {},
          ledger |-> WithRecord(ledger, key,
                        [owner |-> Sender, timestamp |-> NextTimestamp(ledger), cid |-> NoCid])]

\* registerReportWithCID(bytes32, string): the same transition, with the CID
Contract_registerReportWithCID(ledger, key, cid) ==
    IF IsRegistered(ledger, key)
    THEN [reverted |-> TRUE, reason |-> DuplicateRevert, ledger |-> ledger]
    ELSE [reverted |-> FALSE, reason |-> {},
          ledger |-> WithRecord(ledger, key,
                        [owner |-> Sender, timestamp |-> NextTimestamp(ledger), cid |-> cid])]

\* verifyReport(bytes32) -> (bool, address, uint256): zeros when unregistered
Contract_verifyReport(ledger, key) ==
    IF IsRegistered(ledger, key)
    THEN <<TRUE, ledger[key].owner, ledger[key].timestamp>>
    ELSE <<FALSE, ZeroAddress, 0>>

\* getCID(bytes32) -> string: empty when there is none
Contract_getCID(ledger, key) ==
    IF IsRegistered(ledger, key) THEN ledger[key].cid ELSE NoCid

\* ------------------------------------------------------------------------
\* chain.py: the ledger adapter.  net is what the RPC endpoint does during
\* the call: "ok"; "down" (unreachable from the first request on); "lost"
\* (it answers until the transaction is to be sent, then fails);
\* "timeout_mined" and "timeout_dropped" (the transaction is sent, no receipt
\* arrives in time, and the transaction is mined later or never).
\* A call returns [exc, sent, ledger, ret]: the exception it raises (type
\* "none" when it returns), the number of transactions it submitted, the
\* ledger it leaves and its return value.
\* ------------------------------------------------------------------------
NetWrite == {"ok", "down", "lost", "timeout_mined", "timeout_dropped"}
NetRead == {"ok", "down"}

Exc(type, msg) == [type |-> type, msg |-> msg]
NoExc == Exc("none", {})

Raised(type, msg, sent, ledger) ==
    [exc |-> Exc(type, msg), sent |-> sent, ledger |-> ledger, ret |-> NULL]

\* a tail that sends the transaction a second time when no receipt arrives
SendAndWait_retrying(ledger, after, net) ==
    IF net = "lost" THEN Raised("ConnectionError", {}, 0, ledger)
    ELSE IF net = "timeout_dropped" THEN Raised("TimeExhausted", {}, 2, ledger)
    ELSE IF net = "timeout_mined"
         THEN [exc |-> NoExc, sent |-> 2, ledger |-> after,
               ret |-> <<"tx", Cardinality(DOMAIN after)>>]
    ELSE [exc |-> NoExc, sent |-> 1, ledger |-> after,
          ret |-> <<"tx", Cardinality(DOMAIN after)>>]

\* sign, send_raw_transaction, wait_for_transaction_receipt: the shared tail
\* of the two registrations, once build_transaction has estimated the gas
SendAndWait(ledger, after, net) ==
    IF net = "lost" THEN Raised("ConnectionError", {}, 0, ledger)
    ELSE IF net = "timeout_dropped" THEN Raised("TimeExhausted", {}, 1, ledger)
    ELSE IF net = "timeout_mined" THEN Raised("TimeExhausted", {}, 1, after)
    ELSE [exc |-> NoExc, sent |-> 1, ledger |-> after,
          ret |-> <<"tx", Cardinality(DOMAIN after)>>]

\* register_hash against a contract function that writes the record anew
register_hash_overwriting(ledger, hash_hex, net) ==
    IF net = "down" THEN Raised("ConnectionError", {}, 0, ledger)
    ELSE LET key == _to_bytes32(hash_hex)
         IN  IF key = ValueError THEN Raised("ValueError", {}, 0, ledger)
             ELSE SendAndWait(ledger,
                     WithRecord(ledger, key, [owner |-> Sender,
                                              timestamp |-> NextTimestamp(ledger) + 1,
                                              cid |-> NoCid]),
                     net)

register_hash(ledger, hash_hex, net) ==
    IF net = "down" THEN Raised("ConnectionError", {}, 0, ledger)
    ELSE LET key == _to_bytes32(hash_hex)
         IN  IF key = ValueError THEN Raised("ValueError", {}, 0, ledger)
             ELSE LET r == Contract_registerReport(ledger, key)
                  IN  IF r.reverted THEN Raised("ContractLogicError", r.reason, 0, ledger)
                      ELSE SendAndWait(ledger, r.ledger, net)

\* register_hash_with_cid on a contract object that answers for any function
register_hash_with_cid_unguarded(ledger, abi_has_cid, hash_hex, cid, net) ==
    IF net = "down" THEN Raised("ConnectionError", {}, 0, ledger)
    ELSE LET key == _to_bytes32(hash_hex)
         IN  IF key = ValueError THEN Raised("ValueError", {}, 0, ledger)
             ELSE LET r == Contract_registerReportWithCID(ledger, key, cid)
                  IN  IF r.reverted THEN Raised("ContractLogicError", r.reason, 0, ledger)
                      ELSE SendAndWait(ledger, r.ledger, net)

register_hash_with_cid(ledger, abi_has_cid, hash_hex, cid, net) ==
    IF net = "down" THEN Raised("ConnectionError", {}, 0, ledger)
    ELSE IF ~abi_has_cid THEN Raised("ABIFunctionNotFound", {}, 0, ledger)
    ELSE LET key == _to_bytes32(hash_hex)
         IN  IF key = ValueError THEN Raised("ValueError", {}, 0, ledger)
             ELSE LET r == Contract_registerReportWithCID(ledger, key, cid)
                  IN  IF r.reverted THEN Raised("ContractLogicError", r.reason, 0, ledger)
                      ELSE SendAndWait(ledger, r.ledger, net)

\* verify_hash done with a transaction that records the hash it looks up
verify_hash_transacting(ledger, hash_hex, net) ==
    LET key == _to_bytes32(hash_hex)
    IN  IF key = ValueError THEN Raised("ValueError", {}, 0, ledger)
        ELSE IF net = "down" THEN Raised("ConnectionError", {}, 0, ledger)
        ELSE [exc |-> NoExc, sent |-> 1,
              ledger |-> Contract_registerReport(ledger, key).ledger,
              ret |-> Contract_verifyReport(ledger, key)]

\* a read: .call() runs the contract function without a transaction
verify_hash(ledger, hash_hex, net) ==
    LET key == _to_bytes32(hash_hex)
    IN  IF key = ValueError THEN Raised("ValueError", {}, 0, ledger)
        ELSE IF net = "down" THEN Raised("ConnectionError", {}, 0, ledger)
        ELSE [exc |-> NoExc, sent |-> 0, ledger |-> ledger,
              ret |-> Contract_verifyReport(ledger, key)]

get_cid(ledger, abi_has_cid, hash_hex, net) ==
    IF ~abi_has_cid THEN Raised("ABIFunctionNotFound", {}, 0, ledger)
    ELSE LET key == _to_bytes32(hash_hex)
         IN  IF key = ValueError THEN Raised("ValueError", {}, 0, ledger)
             ELSE IF net = "down" THEN Raised("ConnectionError", {}, 0, ledger)
             ELSE [exc |-> NoExc, sent |-> 0, ledger |-> ledger,
                   ret |-> Contract_getCID(ledger, key)]

\* the handlers' test on str(e) for a duplicate registration
IsAlreadyRegistered(msg) ==
    \/ "Hash ja registrado" \in msg
    \/ ("execution reverted" \in msg /\ "Hash" \in msg /\ "registrado" \in msg)

\* ------------------------------------------------------------------------
\* app.py: content-store upload.  A token is "" when unset (or blank), a
\* classic JWT ("eyJ...") or another key.  http is what the provider's
\* endpoint does with the POST.
\* ------------------------------------------------------------------------
JwtToken == "eyJhbGciOi"
KeyToken == "api-key"
TokenValues == {"", JwtToken, KeyToken}
HttpOutcomes == {"ok", "http_error", "no_cid"}

\* token.startswith("eyJ")
StartsWithEyJ(token) == token = JwtToken

\* the content identifier a provider returns for the bytes it stored
CidOf(bytes) ==
    LET d == Digest(bytes, 1)
    IN  <<"Q", "m", HexDigit(d \div 4096), HexDigit((d \div 256) % 16),
          HexDigit((d \div 16) % 16), HexDigit(d % 16)>>

UploadFailed(attempted, posted) ==
    [ok |-> FALSE, cid |-> NoCid, prov |-> "none", attempted |-> attempted, posted |-> posted]

UploadDone(prov, posted) ==
    [ok |-> TRUE, cid |-> CidOf(posted), prov |-> prov, attempted |-> <<prov>>,
     posted |-> posted]

\* ipfs_upload_json_pinata: posts the report dict itself as pinataContent;
\* what is stored is that dict as sent, its keys in insertion order
ipfs_upload_json_pinata(obj, env, http) ==
    IF env.PINATA_JWT = "" THEN UploadFailed(<<>>, <<>>)
    ELSE LET posted == json_dumps(ReportJson(obj), FALSE)
         IN  IF http # "ok" THEN UploadFailed(<<"pinata">>, posted)
             ELSE UploadDone("pinata", posted)

\* _post_multipart and the check of the answer, for the two other providers
PostCanonical(prov, obj, http) ==
    LET b == json_dumps(ReportJson(obj), TRUE)
    IN  IF http # "ok" THEN UploadFailed(<<prov>>, b) ELSE UploadDone(prov, b)

\* ipfs_upload_json_auto with failover: a provider that fails hands over to
\* the next configured one
ipfs_upload_json_failover(obj, env, http) ==
    LET first == IF env.PINATA_JWT # "" THEN ipfs_upload_json_pinata(obj, env, http)
                 ELSE UploadFailed(<<>>, <<>>)
        second == IF env.NFT_STORAGE_TOKEN # "" /\ StartsWithEyJ(env.NFT_STORAGE_TOKEN)
                  THEN PostCanonical("nft.storage", obj, http)
                  ELSE IF env.WEB3_STORAGE_TOKEN # ""
                  THEN PostCanonical("web3.storage", obj, http)
                  ELSE UploadFailed(<<>>, <<>>)
    IN  IF first.ok THEN first
        ELSE [second EXCEPT !.attempted = first.attempted \o second.attempted]

ipfs_upload_json_auto(obj, env, http) ==
    IF env.PINATA_JWT # "" THEN ipfs_upload_json_pinata(obj, env, http)
    ELSE IF env.NFT_STORAGE_TOKEN # "" /\ StartsWithEyJ(env.NFT_STORAGE_TOKEN)
         THEN PostCanonical("nft.storage", obj, http)
    ELSE IF env.WEB3_STORAGE_TOKEN # "" THEN PostCanonical("web3.storage", obj, http)
    ELSE UploadFailed(<<>>, <<>>)

\* ------------------------------------------------------------------------
\* State
\* ------------------------------------------------------------------------
VARIABLES
    lvl,    \* one call of cmmi_level_from_igs: its arguments and its result
    mat,    \* one call of compute_maturity: catalog, answers, result
    nh,     \* one call of normalize_hash and of _to_bytes32 on an input string
    cj,     \* two reports of the same content and their serialisations
    last_report,  \* st.session_state.last_report (NoReport for None)
    last_hash,    \* st.session_state.last_hash
    last_cid,     \* st.session_state.last_cid
    ledger,       \* the contract's records, by bytes32 key
    abi_has_cid,  \* whether abi.json lists registerReportWithCID and getCID
    ui            \* what the last handler run did and showed

pureVars == <<lvl, mat, nh, cj>>
sessionVars == <<last_report, last_hash, last_cid>>
appVars == <<last_report, last_hash, last_cid, ledger, abi_has_cid, ui>>
vars == <<lvl, mat, nh, cj, last_report, last_hash, last_cid, ledger, abi_has_cid, ui>>

NoReport == [schema |-> 0]

\* the record of a handler run: the handler, the message it showed, the
\* exception it caught, the adapter calls it made (operation, hash argument,
\* whether that argument came out of normalize_hash), whether the hash was
\* registered when it started, the transactions it submitted, the value it
\* obtained, what the RPC endpoint did during the first adapter call, for an
\* upload the tokens configured, the providers contacted and the bytes
\* posted, and the text of the field the handler read (company or hash)
NoEnv == [PINATA_JWT |-> "", NFT_STORAGE_TOKEN |-> "", WEB3_STORAGE_TOKEN |-> ""]

UiRecord(handler, shown, exc, calls, dup, sent, ret, attempted, posted) ==
    [handler |-> handler, shown |-> shown, exc |-> exc, calls |-> calls, dup |-> dup,
     sent |-> sent, ret |-> ret, net |-> "none", env |-> NoEnv,
     attempted |-> attempted, posted |-> posted, input |-> <<>>]

UiPlain(handler, shown) ==
    UiRecord(handler, shown, NoExc, <<>>, FALSE, 0, NULL, <<>>, <<>>)

\* the page before any button is pressed in the current run of the script
UiBlank == UiPlain("none", "none")

\* the record u of a run that read the text typed
Typed(u, typed) == [u EXCEPT !.input = typed]

Call(op, hash, normalized) == [op |-> op, hash |-> hash, normalized |-> normalized]

AppIdle ==
    /\ last_report = NoReport /\ last_hash = <<>> /\ last_cid = NoCid
    /\ ledger = <<>> /\ abi_has_cid = TRUE /\ ui = UiBlank

Idle == [pc |-> "idle"]

\* ------------------------------------------------------------------------
\* cmmi_level_from_igs on a grid of percentages k/Grid
\* ------------------------------------------------------------------------
Grid == 20

InitLevel ==
    /\ lvl \in [pc : {"in"}, p1 : 0..Grid, p2 : 0..Grid, p3 : 0..Grid, cmmi : {0}]
    /\ mat = Idle /\ nh = Idle /\ cj = Idle
    /\ AppIdle

ClassifyLevel ==
    /\ lvl.pc = "in"
    /\ lvl' = [lvl EXCEPT !.pc = "out",
                          !.cmmi = cmmi_level_from_igs(<<lvl.p1, Grid>>, <<lvl.p2, Grid>>,
                                                       <<lvl.p3, Grid>>)]
    /\ UNCHANGED <<mat, nh, cj>>
    /\ UNCHANGED appVars

NextLevel == ClassifyLevel

SpecLevel == InitLevel /\ [][NextLevel]_vars

\* ------------------------------------------------------------------------
\* compute_maturity on every small catalog and answers mapping
\* ------------------------------------------------------------------------
MaxSafeguards == 3
Controls == {1, 2}
\* an answer the form cannot produce, and the mark of an id without answer
UnknownStatus == "Talvez"
Missing == "missing"
AnswerValues == {CHOICES[i] : i \in 1..Len(CHOICES)} \cup {UnknownStatus, Missing}

\* the catalog entry of safeguard i
Safeguard(i, ctrl, ig) == [control |-> ctrl, id |-> i, ig |-> ig, control_name |-> ctrl]

\* the catalogs of at most MaxSafeguards entries, listed by control and
\* implementation group as FALLBACK and the catalog file list them
Catalogs ==
    LET Slots == 1..(Cardinality(Controls) * Len(IGS))
        CtrlOf(k) == ((k - 1) \div Len(IGS)) + 1
        IgOf(k) == IGS[((k - 1) % Len(IGS)) + 1]
    IN  UNION {
            {[i \in 1..n |-> Safeguard(i, CtrlOf(c[i]), IgOf(c[i]))] :
                c \in {d \in [1..n -> Slots] : \A i \in 1..(n - 1) : d[i] <= d[i + 1]}}
            : n \in 1..MaxSafeguards}

\* the mapping that omits the ids marked Missing
AsMapping(f) == [i \in {j \in DOMAIN f : f[j] # Missing} |-> f[i]]

InitScore ==
    /\ \E cat \in Catalogs : \E f \in [1..Len(cat) -> AnswerValues] :
          mat = [pc |-> "in", safeguards |-> cat, respostas |-> AsMapping(f),
                 maturity |-> <<>>, cmmi_avg |-> <<0, 1>>]
    /\ lvl = Idle /\ nh = Idle /\ cj = Idle
    /\ AppIdle

ComputeMaturity ==
    /\ mat.pc = "in"
    /\ LET r == compute_maturity(mat.respostas, mat.safeguards)
       IN  mat' = [mat EXCEPT !.pc = "out", !.maturity = r[1], !.cmmi_avg = r[2]]
    /\ UNCHANGED <<lvl, nh, cj>>
    /\ UNCHANGED appVars

NextScore == ComputeMaturity

SpecScore == InitScore /\ [][NextScore]_vars


\* ------------------------------------------------------------------------
\* normalize_hash and _to_bytes32 on input strings built as
\*   wrapper  prefix  body (with at most one foreign character)  wrapper
\* ------------------------------------------------------------------------
MaxWrap == 2
LeadChars == {"SP", "SQ", "TAB"}
TrailChars == {"SP", "SQ"}
Prefixes == {<<>>, <<"0", "x">>, <<"0", "X">>}
ForeignChars == {"g", "SP", "LF", "TAB", "SQ", "FW_A"}
BodyLens == {0} \cup ((HashLen - 1)..(HashLen + 1))

SeqsUpTo(S, n) == UNION {[1..k -> S] : k \in 0..n}

LowerBody(n) == [i \in 1..n |-> IF i % 2 = 1 THEN "a" ELSE "9"]
UpperBody(n) == [i \in 1..n |-> IF i % 2 = 1 THEN "F" ELSE "0"]

InsertAt(s, pos, c) == SubSeq(s, 1, pos) \o <<c>> \o SubSeq(s, pos + 1, Len(s))

Bodies ==
    LET plain == {LowerBody(n) : n \in BodyLens} \cup {UpperBody(n) : n \in BodyLens}
    IN  plain \cup {InsertAt(b, pos, c) :
                      b \in {x \in plain : Len(x) > 0}, pos \in {1, HashLen \div 2},
                      c \in ForeignChars}

HashInputs ==
    {pre \o pfx \o body \o post :
        pre \in SeqsUpTo(LeadChars, MaxWrap), pfx \in Prefixes, body \in Bodies,
        post \in SeqsUpTo(TrailChars, MaxWrap)}

InitHash ==
    /\ \E h \in HashInputs : nh = [pc |-> "in", input |-> h, out |-> NULL, b32 |-> NULL]
    /\ lvl = Idle /\ mat = Idle /\ cj = Idle
    /\ AppIdle

\* the UI's step: normalize_hash on what was typed
NormalizeInput ==
    /\ nh.pc = "in"
    /\ nh' = [nh EXCEPT !.pc = "normalized", !.out = normalize_hash(nh.input)]
    /\ UNCHANGED <<lvl, mat, cj>>
    /\ UNCHANGED appVars

\* the adapter's step: _to_bytes32 on the normalised value, or on the raw
\* input when the caller passes it on unnormalised
ConvertBytes32 ==
    /\ nh.pc = "normalized"
    /\ nh' = [nh EXCEPT !.pc = "converted",
                        !.b32 = _to_bytes32(IF nh.out # NULL THEN nh.out ELSE nh.input)]
    /\ UNCHANGED <<lvl, mat, cj>>
    /\ UNCHANGED appVars

NextHash == NormalizeInput \/ ConvertBytes32

SpecHash == InitHash /\ [][NextHash]_vars

\* ------------------------------------------------------------------------
\* The two registration functions of chain.py called directly, on the text
\* as typed or on what normalize_hash made of it, against an empty ledger
\* ------------------------------------------------------------------------
WrapChars == {"SP", "SQ"}
Wraps == {<<>>} \cup {<<c>> : c \in WrapChars}

AdapterInputs ==
    {pre \o pfx \o body \o post :
        pre \in Wraps, pfx \in Prefixes, body \in Bodies, post \in Wraps}

\* the CID handed to register_hash_with_cid
AdapterCid == <<"Q", "m">>

InitAdapter ==
    /\ \E h \in AdapterInputs : nh = [pc |-> "in", input |-> h, out |-> NULL, b32 |-> NULL]
    /\ lvl = Idle /\ mat = Idle /\ cj = Idle
    /\ last_report = NoReport /\ last_hash = <<>> /\ last_cid = NoCid
    /\ ledger = <<>>
    /\ abi_has_cid \in BOOLEAN
    /\ ui = UiBlank

\* one call of register_hash or of register_hash_with_cid
RegisterInput ==
    /\ nh.pc = "converted"
    /\ \E op \in {"register_hash", "register_hash_with_cid"}, net \in NetWrite,
          arg \in {nh.input} \cup (IF nh.out = NULL THEN {} ELSE {nh.out}) :
          \E r \in {IF op = "register_hash" THEN register_hash(ledger, arg, net)
                     ELSE register_hash_with_cid(ledger, abi_has_cid, arg, AdapterCid, net)} :
              /\ nh' = [pc |-> "registered", input |-> nh.input, out |-> nh.out,
                        b32 |-> nh.b32,
                        reg |-> [op |-> op, arg |-> arg, net |-> net, exc |-> r.exc,
                                 sent |-> r.sent, ret |-> r.ret]]
              /\ ledger' = r.ledger
    /\ UNCHANGED <<lvl, mat, cj, last_report, last_hash, last_cid, abi_has_cid, ui>>

NextAdapter == NormalizeInput \/ ConvertBytes32 \/ RegisterInput

SpecAdapter == InitAdapter /\ [][NextAdapter]_vars


\* ------------------------------------------------------------------------
\* The canonical serialisation of one logical content built in two
\* insertion orders.  A content maps the keys it has to a scalar or to a
\* nested content; a build inserts the keys in a chosen order.
\* ------------------------------------------------------------------------
MaxKeys == 2
NestedKeys == {1, 2}
ScalarVals == {0, 1}

Perms(S) == {f \in [1..Cardinality(S) -> S] : \A i, j \in DOMAIN f : f[i] = f[j] => i = j}

NestedContents == UNION {[K -> ScalarVals] : K \in (SUBSET NestedKeys) \ {{}}}

Contents ==
    UNION {[K -> {[t |-> "n", v |-> 0]} \cup {[t |-> "o", f |-> c] : c \in NestedContents}]
           : K \in SUBSET (1..MaxKeys)}

\* the dict built by inserting the keys of content c in the order ord; a
\* nested dict gets its keys in ascending order, or descending when rev
BuildDict(c, ord, rev) ==
    LET Nested(f) ==
            LET ks == CHOOSE q \in Perms(DOMAIN f) :
                        \A i \in 1..(Len(q) - 1) : IF rev THEN q[i] > q[i + 1] ELSE q[i] < q[i + 1]
            IN  JObj([i \in 1..Len(ks) |-> <<ks[i], JNum(f[ks[i]])>>])
        Val(x) == IF x.t = "n" THEN JNum(x.v) ELSE Nested(x.f)
    IN  JObj([i \in 1..Len(ord) |-> <<ord[i], Val(c[ord[i]])>>])

InitCanon ==
    /\ \E c \in Contents : \E o1, o2 \in Perms(DOMAIN c) : \E r1, r2 \in BOOLEAN :
          cj = [pc |-> "built", content |-> c,
                a |-> BuildDict(c, o1, r1), b |-> BuildDict(c, o2, r2),
                json_a |-> <<>>, json_b |-> <<>>, hash_a |-> <<>>, hash_b |-> <<>>]
    /\ lvl = Idle /\ mat = Idle /\ nh = Idle
    /\ AppIdle

\* the submit handler's two lines, on each build:
\*   report_json = json.dumps(report, ..., sort_keys=True, ...); h = sha256_hex(...)
Fingerprint ==
    /\ cj.pc = "built"
    /\ LET ja == json_dumps(cj.a, TRUE)
           jb == json_dumps(cj.b, TRUE)
       IN  cj' = [cj EXCEPT !.pc = "hashed", !.json_a = ja, !.json_b = jb,
                            !.hash_a = sha256_hex(ja), !.hash_b = sha256_hex(jb)]
    /\ UNCHANGED <<lvl, mat, nh>>
    /\ UNCHANGED appVars

NextCanon == Fingerprint

SpecCanon == InitCanon /\ [][NextCanon]_vars

\* ------------------------------------------------------------------------
\* The application: the Streamlit handlers of app.py over the session state
\* and the ledger.  Each action is one run of the script with one button
\* pressed.
\* ------------------------------------------------------------------------
MaxRecords == 2

\* what load_cis_safeguards returns here: the first control of FALLBACK
MainCatalog == <<Safeguard(1, 1, "IG1"), Safeguard(2, 1, "IG2"), Safeguard(3, 1, "IG3")>>

\* the answers the form can hold, one choice for every safeguard
FormAnswers == {<<"Implementado", "Parcial", "Nao implementado">>}

\* what can stand in the company field
CompanyInputs == {<<>>, <<"SP", "SP">>, <<"SP", "A", "SP">>}

\* the number that renders a company name in the serialisation
CompanyCode(name) == Len(name)

\* datetime.utcnow() to the second
Times == {1}

\* the bytes of the uploaded file or of the pasted text; none when both are empty
NoData == <<0>>
HashSources == {NoData, <<11, 12>>}

\* str.upper() on one character
UpperChar(c) ==
    CASE c = "a" -> "A" [] c = "b" -> "B" [] c = "c" -> "C"
      [] c = "d" -> "D" [] c = "e" -> "E" [] c = "f" -> "F"
      [] c = "x" -> "X"
      [] OTHER -> c

\* what can stand in a hash field: the default (the last hash), the same
\* hash pasted in upper case between blanks and a quote, or 63 hex characters
Messy(h) == <<"SP", "SP">> \o [i \in 1..Len(h) |-> UpperChar(h[i])] \o <<"SQ">>
ShortTyped == <<"0", "x">> \o LowerBody(HashLen - 1)
HashFieldInputs(default) == {default, Messy(default), ShortTyped}

\* what can stand in the CID field: the default (the last CID) or a blank
CidFieldInputs(default) == {default, <<"SP">>}

\* the .env the run loads: each token unset or set; the NFT.Storage token
\* may be a classic JWT or a key of another form
EnvValues == [PINATA_JWT : {"", KeyToken}, NFT_STORAGE_TOKEN : TokenValues,
              WEB3_STORAGE_TOKEN : {"", KeyToken}]

Init ==
    /\ lvl = Idle /\ mat = Idle /\ nh = Idle /\ cj = Idle
    /\ last_report = NoReport
    /\ last_hash = <<>>
    /\ last_cid = NoCid
    /\ ledger = <<>>
    /\ abi_has_cid \in BOOLEAN
    /\ ui = UiBlank

\* a registration that adds a record needs room on the bounded ledger
RoomFor(after) == after = ledger \/ Cardinality(DOMAIN ledger) < MaxRecords

\* an except branch that shows every exception as a failure
ShownForException_generic(exc) == "exception"

\* the except branch shared by the four registration handlers
ShownForException(exc) ==
    IF IsAlreadyRegistered(exc.msg) THEN "already_registered" ELSE "exception"

\* tab Questionario: "Gerar relatorio"
SubmitReport ==
    \E typed \in CompanyInputs, answers \in FormAnswers, now \in Times :
        LET company == Strip(typed, Whitespace)
        IN  IF company = <<>>
            THEN /\ ui' = Typed(UiPlain("submit", "missing_company"), typed)
                 /\ UNCHANGED <<last_report, last_hash, last_cid, ledger, abi_has_cid>>
            ELSE \E report \in {BuildReport(CompanyCode(company), now, answers, MainCatalog)} :
                     /\ last_report' = report
                     /\ last_hash' = ReportHash(report)
                     /\ ui' = Typed(UiPlain("submit", "success"), typed)
                     /\ UNCHANGED <<last_cid, ledger, abi_has_cid>>

\* tab Arquivo/Texto: "Gerar hash"
GenerateHash ==
    \E data \in HashSources, algo \in {"SHA-256", "Keccak-256"} :
        IF data = NoData
        THEN /\ ui' = UiPlain("generate_hash", "no_data")
             /\ UNCHANGED <<last_report, last_hash, last_cid, ledger, abi_has_cid>>
        ELSE /\ last_hash' = IF algo = "SHA-256" THEN sha256_hex(data) ELSE keccak256_hex(data)
             /\ ui' = UiPlain("generate_hash", "success")
             /\ UNCHANGED <<last_report, last_cid, ledger, abi_has_cid>>

\* a registration handler that hands the text typed to the adapter as it is
RegisterHashOnly_unvalidated(handler, h) ==
    \E net \in NetWrite, key \in {_to_bytes32(h)} :
        \E r \in {register_hash(ledger, h, net)} :
            /\ RoomFor(r.ledger)
            /\ ledger' = r.ledger
            /\ ui' = [UiRecord(handler,
                        IF r.exc = NoExc THEN "success" ELSE ShownForException(r.exc),
                        r.exc, <<Call("register_hash", h, FALSE)>>,
                        key # ValueError /\ IsRegistered(ledger, key), r.sent, r.ret,
                        <<>>, <<>>) EXCEPT !.net = net, !.input = h]
            /\ UNCHANGED <<last_report, last_hash, last_cid, abi_has_cid>>

\* a handler that normalises h and registers the hash alone:
\* "Registrar agora (apenas hash)" and "Registrar apenas o hash"
RegisterHashOnly(handler, h) ==
    \E norm \in {normalize_hash(h)} :
        IF norm = NULL
        THEN /\ ui' = Typed(UiPlain(handler, "invalid_hash"), h)
             /\ UNCHANGED <<last_report, last_hash, last_cid, ledger, abi_has_cid>>
        ELSE \E net \in NetWrite, dup \in {IsRegistered(ledger, _to_bytes32(norm))} :
             \E r \in {register_hash(ledger, norm, net)} :
                /\ RoomFor(r.ledger)
                /\ ledger' = r.ledger
                /\ ui' = [UiRecord(handler,
                            IF r.exc = NoExc THEN "success" ELSE ShownForException(r.exc),
                            r.exc, <<Call("register_hash", norm, TRUE)>>,
                            dup, r.sent, r.ret, <<>>, <<>>) EXCEPT !.net = net, !.input = h]
                /\ UNCHANGED <<last_report, last_hash, last_cid, abi_has_cid>>

QuickRegister == RegisterHashOnly("quick_register", last_hash)

ManualRegister == \E h_in \in HashFieldInputs(last_hash) : RegisterHashOnly("manual_register", h_in)

\* a handler that normalises h and looks it up: "Verificar agora" and "Verificar"
VerifyHash(handler, h) ==
    \E norm \in {normalize_hash(h)} :
        IF norm = NULL
        THEN /\ ui' = Typed(UiPlain(handler, "invalid_hash"), h)
             /\ UNCHANGED <<last_report, last_hash, last_cid, ledger, abi_has_cid>>
        ELSE \E net \in NetRead, dup \in {IsRegistered(ledger, _to_bytes32(norm))} :
             \E v \in {verify_hash(ledger, norm, net)} :
                LET first == Call("verify_hash", norm, TRUE)
                IN  /\ IF v.exc # NoExc
                       THEN /\ ledger' = v.ledger
                            /\ ui' = [UiRecord(handler, "exception", v.exc, <<first>>, dup,
                                               v.sent, NULL, <<>>, <<>>) EXCEPT !.net = net, !.input = h]
                       ELSE IF ~v.ret[1]
                       THEN /\ ledger' = v.ledger
                            /\ ui' = [UiRecord(handler, "not_found", NoExc, <<first>>, dup,
                                               v.sent, <<v.ret, NoCid>>, <<>>, <<>>)
                                      EXCEPT !.net = net, !.input = h]
                       ELSE \E net2 \in NetRead :
                            \E c \in {get_cid(v.ledger, abi_has_cid, norm, net2)} :
                                /\ ledger' = c.ledger
                                /\ ui' = [UiRecord(handler, "found", NoExc,
                                        <<first, Call("get_cid", norm, TRUE)>>, dup,
                                        v.sent + c.sent,
                                        <<v.ret, IF c.exc = NoExc THEN c.ret ELSE NoCid>>,
                                        <<>>, <<>>) EXCEPT !.net = net, !.input = h]
                    /\ UNCHANGED <<last_report, last_hash, last_cid, abi_has_cid>>

QuickVerify == VerifyHash("quick_verify", last_hash)

VerifyTab == \E h_lookup \in HashFieldInputs(last_hash) : VerifyHash("verify_tab", h_lookup)

\* an upload handler that forgets the previous CID when the upload fails
UploadReport_clearing_cid ==
    /\ last_report # NoReport
    /\ \E env \in EnvValues, http \in HttpOutcomes :
          \E u \in {ipfs_upload_json_auto(last_report, env, http)} :
              /\ last_cid' = IF u.ok THEN u.cid ELSE NoCid
              /\ ui' = [UiRecord("upload", IF u.ok THEN "success" ELSE "upload_failed",
                                 NoExc, <<>>, FALSE, 0, IF u.ok THEN u.cid ELSE NULL,
                                 u.attempted, u.posted) EXCEPT !.env = env]
    /\ UNCHANGED <<last_report, last_hash, ledger, abi_has_cid>>

\* tab Relatorio & Acoes: "Enviar relatorio ao IPFS"
UploadReport ==
    /\ last_report # NoReport
    /\ \E env \in EnvValues, http \in HttpOutcomes :
          \E u \in {ipfs_upload_json_auto(last_report, env, http)} :
              /\ last_cid' = IF u.ok THEN u.cid ELSE last_cid
              /\ ui' = [UiRecord("upload", IF u.ok THEN "success" ELSE "upload_failed",
                                 NoExc, <<>>, FALSE, 0, IF u.ok THEN u.cid ELSE NULL,
                                 u.attempted, u.posted) EXCEPT !.env = env]
    /\ UNCHANGED <<last_report, last_hash, ledger, abi_has_cid>>

\* the try/except around register_hash_with_cid, shared by the two handlers;
\* typed is the text the hash came from
RegisterWithCid(handler, typed, hash, normalized, cid) ==
    \E net \in NetWrite, key \in {_to_bytes32(hash)} :
        \E r \in {register_hash_with_cid(ledger, abi_has_cid, hash, cid, net)} :
            /\ RoomFor(r.ledger)
            /\ ledger' = r.ledger
            /\ ui' = [UiRecord(handler,
                        IF r.exc = NoExc THEN "success" ELSE ShownForException(r.exc),
                        r.exc, <<Call("register_hash_with_cid", hash, normalized)>>,
                        key # ValueError /\ IsRegistered(ledger, key), r.sent, r.ret,
                        <<>>, <<>>) EXCEPT !.net = net, !.input = typed]
            /\ UNCHANGED <<last_report, last_hash, last_cid, abi_has_cid>>

\* tab Relatorio & Acoes: "Registrar hash + CID (Blockchain)"
RegisterReportCid ==
    /\ last_report # NoReport
    /\ IF last_cid = NoCid
       THEN /\ ui' = Typed(UiPlain("report_register_cid", "no_cid"), last_hash)
            /\ UNCHANGED <<last_report, last_hash, last_cid, ledger, abi_has_cid>>
       ELSE RegisterWithCid("report_register_cid", last_hash, last_hash, FALSE, last_cid)

\* tab Registrar: "Registrar hash + CID"
ManualRegisterCid ==
    \E h_in \in HashFieldInputs(last_hash), cid_in \in CidFieldInputs(last_cid) :
        \E norm \in {normalize_hash(h_in)}, cid \in {Strip(cid_in, Whitespace)} :
            IF norm = NULL
            THEN /\ ui' = Typed(UiPlain("manual_register_cid", "invalid_hash"), h_in)
                 /\ UNCHANGED <<last_report, last_hash, last_cid, ledger, abi_has_cid>>
            ELSE IF cid = <<>>
            THEN /\ ui' = Typed(UiPlain("manual_register_cid", "cid_required"), h_in)
                 /\ UNCHANGED <<last_report, last_hash, last_cid, ledger, abi_has_cid>>
            ELSE RegisterWithCid("manual_register_cid", h_in, norm, TRUE, cid)

\* the next widget event reruns the script from the top: what the previous
\* run showed is gone, the session state and the ledger stay
Rerun ==
    /\ ui # UiBlank
    /\ ui' = UiBlank
    /\ UNCHANGED <<last_report, last_hash, last_cid, ledger, abi_has_cid>>

\* one run of the script handles one button
Handlers ==
    /\ ui = UiBlank
    /\ \/ SubmitReport
       \/ GenerateHash
       \/ QuickRegister
       \/ QuickVerify
       \/ UploadReport
       \/ RegisterReportCid
       \/ ManualRegister
       \/ ManualRegisterCid
       \/ VerifyTab

Next ==
    /\ UNCHANGED pureVars
    /\ \/ Handlers
       \/ Rerun

Spec == Init /\ [][Next]_vars

\* ------------------------------------------------------------------------
\* Properties
\* ------------------------------------------------------------------------

\* ---- C1 ----------------------------------------------------------------
\* The rule table of the level classification, on percentages k/Grid:
\* rules 1 to 4 in order, the first that matches wins, rule 5 catches the rest.
PctLt(k, c) == k * 100 < c * Grid
PctGe(k, c) == k * 100 >= c * Grid
Rule1(p1, p2, p3) == PctLt(p1, 20) /\ PctLt(p2, 20)
Rule2(p1, p2, p3) == PctGe(p1, 80) /\ PctLt(p2, 40)
Rule3(p1, p2, p3) == PctGe(p1, 80) /\ PctGe(p2, 50) /\ PctLt(p3, 40)
Rule4(p1, p2, p3) == PctGe(p1, 80) /\ PctGe(p2, 70) /\ PctGe(p3, 40)
RuleTableLevel(p1, p2, p3) ==
    CASE Rule1(p1, p2, p3) -> 1
      [] ~Rule1(p1, p2, p3) /\ Rule2(p1, p2, p3) -> 2
      [] ~Rule1(p1, p2, p3) /\ ~Rule2(p1, p2, p3) /\ Rule3(p1, p2, p3) -> 3
      [] ~Rule1(p1, p2, p3) /\ ~Rule2(p1, p2, p3) /\ ~Rule3(p1, p2, p3)
           /\ Rule4(p1, p2, p3) ->
             IF PctGe(p1, 90) /\ PctGe(p2, 85) /\ PctGe(p3, 70) THEN 5 ELSE 4
      [] OTHER -> IF PctGe(p1, 50) THEN 2 ELSE 1

\* C1: for every triple of percentages, cmmi_level_from_igs returns the level
\* the ordered rule table gives, first match winning; an input no rule 1-4
\* matches gets rule 5's level.
C1_LevelFollowsRuleTable ==
    lvl.pc = "out" => lvl.cmmi = RuleTableLevel(lvl.p1, lvl.p2, lvl.p3)

\* C1 witness: p1 >= 0.80 with 0.40 <= p2 < 0.50 matches no rule 1-4 and is
\* classified 2 by rule 5.
C1_GapFallsToRule5 ==
    /\ lvl.pc = "out"
    /\ PctGe(lvl.p1, 80) /\ PctGe(lvl.p2, 40) /\ PctLt(lvl.p2, 50)
    /\ lvl.cmmi = 2

\* ---- C2 ----------------------------------------------------------------
IsPercentage(p) == p[2] > 0 /\ 0 <= p[1] /\ p[1] <= p[2]

\* C2: every entry compute_maturity produces, one per control of the catalog,
\* has 0 <= ig1, ig2, ig3 <= 1 and a level in 1..5.
C2_ScoreBounds ==
    mat.pc = "out" =>
        /\ DOMAIN mat.maturity = ControlsOf(mat.safeguards)
        /\ \A ctrl \in DOMAIN mat.maturity :
              /\ IsPercentage(mat.maturity[ctrl].ig1)
              /\ IsPercentage(mat.maturity[ctrl].ig2)
              /\ IsPercentage(mat.maturity[ctrl].ig3)
              /\ mat.maturity[ctrl].cmmi \in 1..5

\* C2 witness: a control at level 4 whose IG1 is fully implemented (1.0) and
\* whose IG3 lies strictly between 0 and 1.
C2_BoundsReached ==
    /\ mat.pc = "out"
    /\ \E ctrl \in DOMAIN mat.maturity :
          /\ mat.maturity[ctrl].cmmi = 4
          /\ mat.maturity[ctrl].ig1[1] = mat.maturity[ctrl].ig1[2]
          /\ 0 < mat.maturity[ctrl].ig3[1]
          /\ mat.maturity[ctrl].ig3[1] < mat.maturity[ctrl].ig3[2]

\* ---- C6 ----------------------------------------------------------------
\* "0x" followed by exactly HashLen lowercase hex characters
WellFormedHash(h) ==
    /\ h # NULL
    /\ Len(h) = HashLen + 2
    /\ h[1] = "0" /\ h[2] = "x"
    /\ \A i \in 3..Len(h) : h[i] \in HexLower

\* s is p followed by exactly HashLen hex characters, for an optional prefix p
PrefixedHex(s) ==
    \E p \in {<<>>, <<"0", "x">>, <<"0", "X">>} :
        /\ StartsWith(s, p)
        /\ Len(s) = Len(p) + HashLen
        /\ \A i \in (Len(p) + 1)..Len(s) : s[i] \in HexAny

HexBodyOf(s) == SubSeq(s, Len(s) - HashLen + 1, Len(s))

\* the claim's acceptance rule: strip the surrounding whitespace and quotes,
\* then an optional prefix, and exactly HashLen hex characters remain
ClaimedCore(s) == Strip(s, Whitespace \cup Quotes)
ClaimedAccepts(s) == PrefixedHex(ClaimedCore(s))

\* the amended rule: fold compatibility characters (NFKC), strip the
\* surrounding whitespace, delete every space, LF and CR wherever it stands,
\* strip the surrounding quotes; then an optional prefix and exactly HashLen
\* hex characters remain
AmendedCore(s) ==
    LET NotBlank(c) == c \notin {"SP", "LF", "CR"}
    IN  Strip(SelectSeq(Strip(NFKC(s), Whitespace), NotBlank), Quotes)
AmendedAccepts(s) == PrefixedHex(AmendedCore(s))

\* C6 (as claimed): normalize_hash returns null or a well-formed hash, and
\* accepts exactly the inputs that, once the surrounding whitespace, quotes
\* and optional prefix are stripped, are exactly 64 hex characters.
C6_AcceptsExactlyStripped ==
    nh.pc # "in" =>
        /\ nh.out = NULL \/ WellFormedHash(nh.out)
        /\ (nh.out # NULL) <=> ClaimedAccepts(nh.input)

\* C6 (amended): normalize_hash returns null or "0x" + 64 lowercase hex; it
\* accepts exactly the inputs that are 64 hex characters after NFKC folding,
\* stripping surrounding whitespace, deleting every space/LF/CR (interior
\* ones too), stripping surrounding quotes and one optional 0x/0X prefix; the
\* result is the lower-cased hex body behind "0x".
C6_NormalizeHashAmended ==
    nh.pc # "in" =>
        /\ nh.out = NULL \/ WellFormedHash(nh.out)
        /\ (nh.out # NULL) <=> AmendedAccepts(nh.input)
        /\ nh.out # NULL => nh.out = <<"0", "x">> \o Lower(HexBodyOf(AmendedCore(nh.input)))

\* C6 witness: 64 hex characters with a space inside them are accepted, and
\* so is the claim's example "  0X" + 64 uppercase hex + "'".
C6_InteriorSpaceAccepted ==
    /\ nh.pc = "normalized"
    /\ nh.input = InsertAt(LowerBody(HashLen), HashLen \div 2, "SP")
    /\ nh.out = <<"0", "x">> \o LowerBody(HashLen)

\* ---- C8 ----------------------------------------------------------------
\* C8: two reports of the same logical content built in different insertion
\* orders serialise to the same canonical bytes and have the same fingerprint.
C8_CanonicalOrderIndependent ==
    cj.pc = "hashed" => cj.json_a = cj.json_b /\ cj.hash_a = cj.hash_b

\* C8 witness: two builds that differ as dicts at the top level and in a
\* nested dict (their unsorted serialisations differ), with equal fingerprints.
C8_DifferentOrdersSameHash ==
    /\ cj.pc = "hashed"
    /\ cj.a # cj.b
    /\ json_dumps(cj.a, FALSE) # json_dumps(cj.b, FALSE)
    /\ \E k \in DOMAIN cj.content : cj.content[k].t = "o" /\ Cardinality(DOMAIN cj.content[k].f) > 1
    /\ cj.a.items[1][1] # cj.b.items[1][1]
    /\ cj.hash_a = cj.hash_b

\* ---- handler runs --------------------------------------------------------
\* the run registered with the adapter operation op
Registering(op) == ui.calls # <<>> /\ ui.calls[1].op = op
\* the bytes32 key of the hash the run's first adapter call was given
CalledKey == _to_bytes32(ui.calls[1].hash)

\* ---- C3 ----------------------------------------------------------------
\* C3: a registration of a hash the ledger already holds, on an endpoint
\* that answers, ends in the contract's rejection, which the handler shows
\* as the already-registered warning: not as success, not as a connectivity
\* error, not as a generic failure; and no transaction is sent.
C3_DuplicateIsAlreadyRegistered ==
    (/\ Registering("register_hash") \/ (Registering("register_hash_with_cid") /\ abi_has_cid)
     /\ ui.dup
     /\ ui.net # "down") =>
        /\ ui.exc.type = "ContractLogicError"
        /\ ui.shown = "already_registered"
        /\ ui.sent = 0

\* C3 witness: "Registrar apenas o hash" pressed for a hash registered
\* before, the endpoint answering: the warning is shown.
C3_SecondRegistrationWarned ==
    /\ ui.handler = "manual_register"
    /\ ui.dup /\ ui.net = "ok"
    /\ ui.shown = "already_registered"
    /\ CalledKey \in DOMAIN ledger

\* ---- C4 ----------------------------------------------------------------
\* C4: no step removes a record of the ledger or changes its owner, its
\* timestamp or its content address.
C4_RegistrationMonotonic ==
    [][\A k \in DOMAIN ledger : k \in DOMAIN ledger' /\ ledger'[k] = ledger[k]]_vars

\* C4 witness: a ledger of two records, the second registration-with-CID of
\* a hash just refused.
C4_DuplicateRefusedOnFullLedger ==
    /\ Cardinality(DOMAIN ledger) = 2
    /\ Registering("register_hash_with_cid")
    /\ ui.dup
    /\ ui.exc.type = "ContractLogicError"
    /\ \E k \in DOMAIN ledger : ledger[k].cid # NoCid

\* ---- C5 ----------------------------------------------------------------
\* C5: a run of a verify handler leaves the ledger and the session state
\* (last_report, last_hash, last_cid) as they were, and what it obtains is
\* what the unchanged ledger holds for the hash: so any number of lookups
\* with no registration in between obtain the same result.
C5_VerifyReadOnly ==
    [][ui'.handler \in {"quick_verify", "verify_tab"} =>
          /\ ledger' = ledger
          /\ sessionVars' = sessionVars
          /\ ui'.sent = 0
          /\ ui'.shown \in {"found", "not_found"} =>
                LET key == _to_bytes32(ui'.calls[1].hash)
                IN  /\ ui'.ret[1] = Contract_verifyReport(ledger, key)
                    /\ ui'.ret[1][1] <=> IsRegistered(ledger, key)]_vars

\* C5 witness: a lookup found a registered hash and read its content address.
C5_FoundWithCid ==
    /\ ui.handler = "verify_tab"
    /\ ui.shown = "found"
    /\ Len(ui.calls) = 2
    /\ ui.ret[2] # NoCid
    /\ ledger # <<>>

\* ---- C7 ----------------------------------------------------------------
\* C7 (as claimed): every adapter call a handler makes is given the value
\* normalize_hash returned for the fingerprint.
C7_EveryCallNormalized ==
    \A i \in DOMAIN ui.calls : ui.calls[i].normalized

\* ---- C9 ----------------------------------------------------------------
\* the first provider whose token is present, in the order of precedence
FirstPresent(env) ==
    IF env.PINATA_JWT # "" THEN <<"pinata">>
    ELSE IF env.NFT_STORAGE_TOKEN # "" THEN <<"nft.storage">>
    ELSE IF env.WEB3_STORAGE_TOKEN # "" THEN <<"web3.storage">>
    ELSE <<>>

\* the same, NFT.Storage counting only with a token of the classic JWT form
FirstUsable(env) ==
    IF env.PINATA_JWT # "" THEN <<"pinata">>
    ELSE IF env.NFT_STORAGE_TOKEN # "" /\ StartsWithEyJ(env.NFT_STORAGE_TOKEN)
         THEN <<"nft.storage">>
    ELSE IF env.WEB3_STORAGE_TOKEN # "" THEN <<"web3.storage">>
    ELSE <<>>

\* C9 (as claimed): the upload contacts the first provider whose token is
\* present and no other; its failure is shown.
C9_SelectsByPresence ==
    ui.handler = "upload" =>
        /\ ui.attempted = FirstPresent(ui.env)
        /\ ui.ret = NULL => ui.shown = "upload_failed"

\* C9 (amended): the upload contacts exactly one provider, the first in the
\* order Pinata, NFT.Storage, Web3.Storage whose token is present, where an
\* NFT.Storage token counts only if it begins with "eyJ"; when that provider
\* fails no other is contacted and the failure is shown; with no such
\* provider none is contacted and the upload fails.
C9_SelectsFirstUsable ==
    ui.handler = "upload" =>
        /\ ui.attempted = FirstUsable(ui.env)
        /\ Len(ui.attempted) <= 1
        /\ ui.ret = NULL <=> ui.shown = "upload_failed"
        /\ ui.attempted = <<>> => ui.shown = "upload_failed"

\* C9 witness: Pinata unset, an NFT.Storage token that is no JWT, a
\* Web3.Storage token: Web3.Storage is contacted, fails, and nothing else is.
C9_NonJwtTokenSkipped ==
    /\ ui.handler = "upload"
    /\ ui.env.PINATA_JWT = "" /\ ui.env.NFT_STORAGE_TOKEN = KeyToken
    /\ ui.env.WEB3_STORAGE_TOKEN # ""
    /\ ui.attempted = <<"web3.storage">>
    /\ ui.shown = "upload_failed"

\* ---- C10 ---------------------------------------------------------------
\* C10: when abi.json lacks registerReportWithCID and the endpoint answers,
\* register_hash_with_cid raises ABIFunctionNotFound, an exception of its own
\* type (no ConnectionError, no ContractLogicError, no ValueError), and sends
\* no transaction; the handler shows it; and that exception is raised in no
\* other case.
C10_UnsupportedIsDistinct ==
    Registering("register_hash_with_cid") =>
        /\ (~abi_has_cid /\ ui.net # "down") =>
              /\ ui.exc.type = "ABIFunctionNotFound"
              /\ ui.sent = 0
              /\ ui.shown = "exception"
        /\ ui.exc.type = "ABIFunctionNotFound" => ~abi_has_cid

\* C10 witness: "Registrar hash + CID" pressed with a valid hash and CID on a
\* contract without the function, the endpoint answering.
C10_MissingFunctionRaised ==
    /\ ui.handler = "manual_register_cid"
    /\ ~abi_has_cid
    /\ ui.net = "ok"
    /\ ui.exc.type = "ABIFunctionNotFound"
    /\ ui.sent = 0

\* ---- C11 ---------------------------------------------------------------
\* the catalog positions of the safeguards of a control and group
Members(safeguards, ctrl, ig) ==
    {i \in 1..Len(safeguards) : safeguards[i].control = ctrl /\ safeguards[i].ig = ig}

\* the members of a set of positions whose answer is one of the given texts
Answered(safeguards, respostas, M, texts) ==
    {i \in M : safeguards[i].id \in DOMAIN respostas /\ respostas[safeguards[i].id] \in texts}

\* twice the sum of the members' scores by the claim's table: 1.0 for
\* Implemented and NotApplicable, 0.5 for Partial, 0.0 for everything else
TwiceScoreSum(safeguards, respostas, M) ==
    2 * Cardinality(Answered(safeguards, respostas, M, {"Implementado", "Nao se aplica"}))
      + Cardinality(Answered(safeguards, respostas, M, {"Parcial"}))

\* the rational p is the mean of the scores of the members M (0 if M is empty)
IsMeanOf(p, safeguards, respostas, M) ==
    /\ p[2] > 0
    /\ IF M = {} THEN p[1] = 0
       ELSE p[1] * 2 * Cardinality(M) = TwiceScoreSum(safeguards, respostas, M) * p[2]

\* C11: for every control and every implementation group, the percentage
\* compute_maturity yields is the arithmetic mean of the members' scores
\* (1.0 Implemented or NotApplicable, 0.5 Partial, 0.0 NotImplemented,
\* unanswered or unknown), 0.0 for an empty bucket, with a nonzero divisor.
C11_PercentageIsMean ==
    mat.pc = "out" =>
        \A ctrl \in ControlsOf(mat.safeguards) :
            /\ ctrl \in DOMAIN mat.maturity
            /\ IsMeanOf(mat.maturity[ctrl].ig1, mat.safeguards, mat.respostas,
                        Members(mat.safeguards, ctrl, "IG1"))
            /\ IsMeanOf(mat.maturity[ctrl].ig2, mat.safeguards, mat.respostas,
                        Members(mat.safeguards, ctrl, "IG2"))
            /\ IsMeanOf(mat.maturity[ctrl].ig3, mat.safeguards, mat.respostas,
                        Members(mat.safeguards, ctrl, "IG3"))

\* C11 witness: an IG1 bucket of three safeguards, one answered "Nao se
\* aplica", one with an unknown status and one unanswered, whose mean is 1/3,
\* beside an empty IG2 bucket at 0.
C11_MixedBucketMean ==
    /\ mat.pc = "out"
    /\ \E ctrl \in DOMAIN mat.maturity :
          LET M == Members(mat.safeguards, ctrl, "IG1")
          IN  /\ Cardinality(M) = 3
              /\ \E i \in M : mat.safeguards[i].id \notin DOMAIN mat.respostas
              /\ Answered(mat.safeguards, mat.respostas, M, {UnknownStatus}) # {}
              /\ Answered(mat.safeguards, mat.respostas, M, {"Nao se aplica"}) # {}
              /\ mat.maturity[ctrl].ig1[1] * 3 = mat.maturity[ctrl].ig1[2]
              /\ mat.maturity[ctrl].ig2[1] = 0

\* ---- C12 ---------------------------------------------------------------
\* the spec's example catalog: control 1 with one safeguard in each group
ExampleCatalog ==
    <<Safeguard(1, 1, "IG1"), Safeguard(2, 1, "IG2"), Safeguard(3, 1, "IG3")>>
ExampleAnswers == <<"Implementado", "Parcial", "Nao implementado">>
AllNotImplemented == <<"Nao implementado", "Nao implementado", "Nao implementado">>

\* the rational p is the fraction n/2
IsHalves(p, n) == p[2] > 0 /\ 2 * p[1] = n * p[2]

\* C12: on the example catalog, the answers Implemented / Partial /
\* NotImplemented give ig1 = 1.0, ig2 = 0.5, ig3 = 0.0 and level 3; all three
\* NotImplemented give ig1 = ig2 = ig3 = 0.0 and level 1.
C12_ScoringExamples ==
    (mat.pc = "out" /\ mat.safeguards = ExampleCatalog) =>
        /\ mat.respostas = ExampleAnswers =>
              /\ IsHalves(mat.maturity[1].ig1, 2)
              /\ IsHalves(mat.maturity[1].ig2, 1)
              /\ IsHalves(mat.maturity[1].ig3, 0)
              /\ mat.maturity[1].cmmi = 3
        /\ mat.respostas = AllNotImplemented =>
              /\ IsHalves(mat.maturity[1].ig1, 0)
              /\ IsHalves(mat.maturity[1].ig2, 0)
              /\ IsHalves(mat.maturity[1].ig3, 0)
              /\ mat.maturity[1].cmmi = 1

\* C12 witness: the first example has been scored, at level 3.
C12_FirstExampleScored ==
    /\ mat.pc = "out"
    /\ mat.safeguards = ExampleCatalog
    /\ mat.respostas = ExampleAnswers
    /\ DOMAIN mat.maturity = {1}
    /\ mat.maturity[1].cmmi = 3

\* ---- C13 ---------------------------------------------------------------
\* C13 (as claimed): whichever provider the upload contacts, the bytes it
\* posts are the canonical serialisation of the report, so they hash to the
\* report's fingerprint.
C13_UploadsCanonicalBytes ==
    (ui.handler = "upload" /\ ui.attempted # <<>>) =>
        /\ ui.posted = CanonicalBytes(last_report)
        /\ sha256_hex(ui.posted) = ReportHash(last_report)

\* ---- C14 ---------------------------------------------------------------
\* C14: an upload that obtains no content address (no provider usable, or
\* the provider's call failed) is shown as a failed step and leaves
\* last_report, last_hash and last_cid, and the ledger, as they were.
C14_FailedUploadKeepsSession ==
    [][(ui'.handler = "upload" /\ ui'.ret = NULL) =>
          /\ ui'.shown = "upload_failed"
          /\ sessionVars' = sessionVars
          /\ ledger' = ledger]_vars

\* C14 witness: an upload failed at the provider while the session held the
\* content address of an earlier upload, which is still there.
C14_FailureAfterEarlierUpload ==
    /\ ui.handler = "upload"
    /\ ui.shown = "upload_failed"
    /\ ui.attempted # <<>>
    /\ last_cid # NoCid
    /\ last_hash = ReportHash(last_report)

\* ---- C15 ---------------------------------------------------------------
\* the handlers that read a fingerprint
HashHandlers ==
    {"quick_register", "quick_verify", "report_register_cid", "manual_register",
     "manual_register_cid", "verify_tab"}

\* C15: a submit with an empty or whitespace-only company name is reported
\* and changes neither last_report nor last_hash (nor anything else kept);
\* a handler given a malformed fingerprint reports it, calls no adapter
\* operation, sends nothing, and changes neither the session nor the ledger.
C15_ValidationCommitsNothing ==
    [][/\ (ui'.handler = "submit" /\ AllIn(ui'.input, Whitespace)) =>
             /\ ui'.shown = "missing_company"
             /\ sessionVars' = sessionVars
             /\ ledger' = ledger
       /\ (ui'.handler \in HashHandlers /\ ~AmendedAccepts(ui'.input)) =>
             /\ ui'.shown = "invalid_hash"
             /\ ui'.calls = <<>>
             /\ ui'.sent = 0
             /\ sessionVars' = sessionVars
             /\ ledger' = ledger]_vars

\* C15 witness: with a report, its hash and a ledger record in place,
\* "Registrar apenas o hash" was pressed on 63 hex characters and refused.
C15_MalformedHashRefused ==
    /\ ui.handler = "manual_register"
    /\ ui.input = ShortTyped
    /\ ui.shown = "invalid_hash"
    /\ last_report # NoReport
    /\ last_hash # <<>>
    /\ ledger # <<>>

\* ---- C16 ---------------------------------------------------------------
\* C16: a run of register_hash or register_hash_with_cid sends at most one
\* transaction.  An unreachable endpoint is surfaced as a connection error
\* with nothing sent; a missing receipt as a timeout after the one
\* transaction sent; a revert with nothing sent; and no failure is shown
\* as a success.
C16_NoRetry ==
    (Registering("register_hash") \/ Registering("register_hash_with_cid")) =>
        /\ ui.sent <= 1
        /\ ui.net = "down" =>
              ui.exc.type = "ConnectionError" /\ ui.sent = 0 /\ ui.shown = "exception"
        /\ (ui.net \in {"timeout_mined", "timeout_dropped"} /\ ui.sent > 0) =>
              ui.exc.type = "TimeExhausted" /\ ui.sent = 1 /\ ui.shown = "exception"
        /\ ui.exc.type \in {"ContractLogicError", "ConnectionError"} => ui.sent = 0
        /\ ui.shown = "success" <=> ui.exc = NoExc
        /\ ui.shown = "success" => ui.sent = 1

\* C16 witness: the transaction was sent once, no receipt came in time, the
\* timeout was shown, and the transaction was mined afterwards.
C16_TimeoutSurfacedOnce ==
    /\ Registering("register_hash")
    /\ ui.net = "timeout_mined"
    /\ ui.exc.type = "TimeExhausted"
    /\ ui.sent = 1
    /\ ~ui.dup
    /\ CalledKey \in DOMAIN ledger

\* ---- C17 ---------------------------------------------------------------
\* the content addresses an upload of the report can return
UploadCids(report) == {CidOf(json_dumps(ReportJson(report), sorted)) : sorted \in BOOLEAN}

\* C17: whenever "Registrar hash + CID (Blockchain)" of the report tab calls
\* register_hash_with_cid, the hash it passes is the fingerprint of the
\* current last_report, and the CID it passes (last_cid, which the handler
\* leaves as it is) is one an upload of that report returns.
C17_SessionCoherent ==
    (ui.handler = "report_register_cid" /\ Registering("register_hash_with_cid")) =>
        /\ ui.calls[1].hash = ReportHash(last_report)
        /\ last_cid \in UploadCids(last_report)

\* ---- C18 ---------------------------------------------------------------
\* the claim's well-formed fingerprint: an optional prefix followed by exactly
\* HashLen hex characters, nothing around them
ClaimedWellFormed(s) == PrefixedHex(s)

\* what the adapter takes: the same, between any surrounding whitespace
AdapterWellFormed(s) == PrefixedHex(Strip(s, Whitespace))

\* the ABI lookup and the nonce query that precede _to_bytes32 succeeded
ReachedConversion ==
    /\ nh.reg.net # "down"
    /\ nh.reg.op = "register_hash_with_cid" => abi_has_cid

IsBytes32(b) ==
    /\ b # ValueError
    /\ Len(b) = HashLen \div 2
    /\ \A i \in 1..Len(b) : b[i] \in 0..255

\* C18 (as claimed): for every input that is not an optional 0x prefix
\* followed by exactly 64 hex characters, the registration function raises
\* ValueError and sends nothing; and what normalize_hash returns is
\* converted to exactly 32 bytes.
C18_ValueErrorForMalformed ==
    /\ nh.pc = "registered" =>
          (~ClaimedWellFormed(nh.reg.arg) =>
               nh.reg.exc.type = "ValueError" /\ nh.reg.sent = 0 /\ ledger = <<>>)
    /\ (nh.pc \in {"converted", "registered"} /\ nh.out # NULL) => IsBytes32(nh.b32)

\* C18 (amended): an input that, once its surrounding whitespace is
\* stripped, is not an optional 0x/0X prefix followed by exactly 64 hex
\* characters never gets a transaction: the call raises, sends nothing and
\* leaves the ledger as it was.  The exception is the ValueError of
\* _to_bytes32 when the nonce query and the ABI lookup before it succeeded,
\* and the connection error when the endpoint is down.  ValueError is raised
\* for no other input.  What normalize_hash returns is converted to exactly
\* 32 bytes, those its hex digits spell.
C18_MalformedNeverSent ==
    /\ nh.pc = "registered" =>
          /\ ~AdapterWellFormed(nh.reg.arg) =>
                /\ nh.reg.exc # NoExc
                /\ nh.reg.sent = 0
                /\ ledger = <<>>
                /\ ReachedConversion => nh.reg.exc.type = "ValueError"
                /\ nh.reg.net = "down" => nh.reg.exc.type = "ConnectionError"
          /\ nh.reg.exc.type = "ValueError" => ~AdapterWellFormed(nh.reg.arg)
    /\ (nh.pc \in {"converted", "registered"} /\ nh.out # NULL) =>
          /\ IsBytes32(nh.b32)
          /\ nh.b32 = BytesFromHex(HexBodyOf(nh.out))

\* C18 witness: a hash typed between quotes, which normalize_hash accepts
\* and turns into 32 bytes, is refused by register_hash when passed as
\* typed: ValueError, nothing sent, on an endpoint that answers.
C18_QuotedInputRefused ==
    /\ nh.pc = "registered"
    /\ nh.input = <<"SQ">> \o UpperBody(HashLen) \o <<"SQ">>
    /\ nh.out # NULL
    /\ IsBytes32(nh.b32)
    /\ nh.reg.op = "register_hash"
    /\ nh.reg.arg = nh.input
    /\ nh.reg.net = "ok"
    /\ nh.reg.exc.type = "ValueError"
    /\ nh.reg.sent = 0

====
